---------------------------- MODULE Spec2Model ----------------------------
(***************************************************************************)
(* Model of the meta service of databend's metasrv:                        *)
(*   src/metasrv/src/meta_service/meta_service_impl.rs                     *)
(* MetaServiceImpl is the gRPC adapter in front of MetaNode: the handshake *)
(* that issues a token, the client write / forward path and the three raft *)
(* RPCs (append_entries, install_snapshot, vote).                          *)
(*                                                                         *)
(* MetaNode::handle_forwardable_request, FlightToken and the raft engine   *)
(* behind self.meta_node.raft are not part of the source at hand; they are *)
(* modelled from the specification (sections 4.1, 4.2 and 4.4).            *)
(*                                                                         *)
(* The Replicated State Machine is not part of the source either; it is    *)
(* modelled from sections 3, 4.3 and 8.                                    *)
(*                                                                         *)
(* Five specifications share the variables:                                *)
(*   Spec       the service adapter: handshake, write, get, forward and    *)
(*              the forwarding between nodes; the consensus engine is      *)
(*              abstracted to roles that change arbitrarily.               *)
(*   SpecRaft   the consensus RPC handlers and the engine behind them.     *)
(*   SpecRpc    the consensus RPC handlers of one node, served with every  *)
(*              request a peer can send.                                   *)
(*   SpecWrite  a client write on a leader over the running engine.        *)
(*   SpecSM     the state machines of two nodes applying committed writes. *)
(***************************************************************************)
EXTENDS Integers, Sequences, FiniteSets, TLC

VARIABLES
    role,         \* NodeRole of every node
    currentTerm,  \* the term of every node
    log,          \* the replicated log of every node
    votedFor,     \* whom every node voted for in its term (NoNode: nobody)
    commitIndex,  \* the commit index of every node
    votesGranted, \* the votes every candidate has collected
    matchIndex,   \* what every leader knows to be replicated on every node
    committed,    \* history: the committed entries and the term that committed each
    elected,      \* history: the nodes that became Leader, by term
    lastRpc,      \* the outcome of the last consensus RPC a handler served
    sm,           \* the replicated state machine of every node
    issued,       \* tokens created by try_create_token so far
    call          \* the client call being served, or the outcome of the last one

adapterVars == <<issued, call>>
engineVars == <<votedFor, commitIndex, votesGranted, matchIndex, committed, elected,
               lastRpc, sm>>
vars == <<role, currentTerm, log, votedFor, commitIndex, votesGranted, matchIndex,
          committed, elected, lastRpc, sm, issued, call>>

\* ------------------------------------------------------------------ bounds

\* Hop budgets a client may put in a ForwardRequest: 0..MaxHops.
MaxHops == 2
\* Frames a client sends on one handshake stream: 0..MaxFrames.
MaxFrames == 2
\* Log entries a node holds at most.
MaxLog == 2
\* The highest term a node campaigns in.
MaxTerm == 2
\* Entries the leaders append for forwardable requests, in all, under Spec.
MaxWrites == 1
\* Entries the cluster commits under SpecSM.
MaxApply == 3

Node == {1, 2, 3}
NoNode == 0

Follower == "Follower"
Candidate == "Candidate"
Leader == "Leader"
NodeRole == {Follower, Candidate, Leader}

\* MetadataCommand payloads of client writes.
Cmd == {"x"}

\* --------------------------------------------- Replicated State Machine

\* The keys of the namespace and the values written to them.
Keys == {"a"}
Values == {"x", "y"}

\* MetadataCommand: upsert with an expected version.
Upsert(key, expected, value) ==
    [key |-> key, expected_version |-> expected, value |-> value]

\* What the store holds for a key: absent is version 0.
Absent == [version |-> 0, value |-> ""]
EmptyStore == [k \in Keys |-> Absent]

\* AppliedState: the new version, or the version-conflict result.
Success(version) == [ok |-> TRUE, version |-> version, error |-> ""]
VersionConflict == [ok |-> FALSE, version |-> 0, error |-> "VersionConflict"]

\* apply that writes whatever version the command expects.
apply_unchecked(store, cmd) ==
    [store |-> [store EXCEPT ![cmd.key] =
                   [version |-> @.version + 1, value |-> cmd.value]],
     state |-> Success(store[cmd.key].version + 1)]

\* apply(entry) -> AppliedState, on the key/value mapping.
apply(store, cmd) ==
    IF cmd.expected_version = store[cmd.key].version
    THEN [store |-> [store EXCEPT ![cmd.key] =
                        [version |-> @.version + 1, value |-> cmd.value]],
          state |-> Success(store[cmd.key].version + 1)]
    ELSE [store |-> store, state |-> VersionConflict]

\* A state machine that has applied nothing: last is the index of the last
\* entry its store reflects, results the AppliedStates it produced, in order.
NoSm == [last |-> 0, store |-> EmptyStore, results |-> <<>>]

\* -------------------------------------------------------------- wire data

\* Decimal text of a small number, as serde_json writes it.
NumStr(n) == CASE n = 0 -> "0" [] n = 1 -> "1" [] n = 2 -> "2" [] n = 3 -> "3"
               [] n = 4 -> "4" [] OTHER -> "5"

IsNumStr(s) == s \in {"0", "1", "2", "3", "4", "5"}

StrNum(s) == CHOOSE n \in 0..5 : NumStr(n) = s

\* A payload no decoder accepts.
Garbage == <<"junk">>

\* ---------------------------------------------------------- Token Service

\* The signing key of this service (FlightToken::create) and a foreign one.
Key == "k1"
OtherKey == "k2"

\* FlightClaim { username }.
FlightClaim(u) == [username |-> u]

\* FlightToken::try_create_token: the claim and a signature over it.
try_create_token(claim) == <<"jwt", claim.username, Key, claim.username>>

\* A token signed with another key, and one whose claim was altered.
ForeignToken == <<"jwt", "root", OtherKey, "root">>
TamperedToken == <<"jwt", "root", Key, "guest">>

\* FlightToken::try_verify_token: Invalid for a malformed token, Unverified for
\* a signature that does not match, else the claim.
try_verify_token(token) ==
    IF Len(token) # 4 \/ token[1] # "jwt"
    THEN [ok |-> FALSE, err |-> "Invalid", claim |-> FlightClaim("")]
    ELSE IF token[3] # Key \/ token[4] # token[2]
    THEN [ok |-> FALSE, err |-> "Unverified", claim |-> FlightClaim("")]
    ELSE [ok |-> TRUE, err |-> "", claim |-> FlightClaim(token[2])]

\* ------------------------------------------------------------------ status

\* GetReply { ok, key, value }.
GetReply(ok, key, value) == [ok |-> ok, key |-> key, value |-> value]

NoOut == [kind |-> "None", code |-> "None", msg |-> <<>>, data |-> <<>>,
          error |-> <<>>, stream |-> <<>>, get |-> GetReply(FALSE, "", "")]

\* Err(tonic::Status) of a handler.
Status(code, msg) == [NoOut EXCEPT !.kind = "Status", !.code = code, !.msg = msg]

\* Ok(tonic::Response(RaftReply { data, error })).
Response(data, error) ==
    [NoOut EXCEPT !.kind = "Response", !.code = "Ok", !.data = data, !.error = error]

\* Ok(Response(stream)) of handshake.
StreamResponse(stream) ==
    [NoOut EXCEPT !.kind = "Response", !.code = "Ok", !.stream = stream]

\* Ok(tonic::Response(GetReply)).
GetResponse(reply) ==
    [NoOut EXCEPT !.kind = "Response", !.code = "Ok", !.get = reply]

\* The handler unwound: unwrap() or expect() on an Err.
Panic(msg) == [NoOut EXCEPT !.kind = "Panic", !.msg = msg]

\* The request metadata of a call: no auth-token-bin entry, bytes that are not
\* UTF-8, or a token text.
NoMetadata == <<>>
NonUtf8Metadata == <<"bin", "ff">>
TokenMetadata(token) == <<"utf8">> \o token

Metadata == {NoMetadata, NonUtf8Metadata, TokenMetadata(Garbage),
             TokenMetadata(ForeignToken), TokenMetadata(TamperedToken),
             TokenMetadata(try_create_token(FlightClaim("root")))}

\* The metadata of the calls to the RPCs that do not look at it: no token, a
\* token that does not verify, a token that does.
CallerMetadata == {NoMetadata, TokenMetadata(ForeignToken),
                   TokenMetadata(try_create_token(FlightClaim("root")))}

\* check_token that takes any token text without verifying it.
check_token_unverified(metadata) ==
    IF Len(metadata) = 0 \/ metadata[1] # "utf8"
    THEN [ok |-> FALSE, status |-> Status("Internal", <<"Error auth-token-bin is empty">>)]
    ELSE [ok |-> TRUE, status |-> NoOut]

\* MetaServiceImpl::check_token.
check_token(metadata) ==
    IF Len(metadata) = 0 \/ metadata[1] # "utf8"
    THEN [ok |-> FALSE, status |-> Status("Internal", <<"Error auth-token-bin is empty">>)]
    ELSE LET v == try_verify_token(Tail(metadata))
         IN  IF v.ok THEN [ok |-> TRUE, status |-> NoOut]
             ELSE [ok |-> FALSE, status |-> Status("Internal", <<v.err>>)]

\* The consensus RPC slot: which handler ran last, what went wrong while it
\* ran and how it ended.
NoRpc == [name |-> "none", fault |-> "none", decoded |-> FALSE, stale |-> FALSE,
          kind |-> "None", code |-> "None", ok |-> FALSE]

\* decoded: the request text decoded into the typed request; stale: the term
\* of the request was below the term of the node; ok: the flag of the reply
\* (vote_granted, success) as the caller reads it.
RpcOutcome(name, fault, decoded, stale, out) ==
    [name |-> name, fault |-> fault, decoded |-> decoded, stale |-> stale,
     kind |-> out.kind, code |-> out.code,
     ok |-> out.kind = "Response" /\ Len(out.data) >= 3 /\ out.data[3] = "true"]

\* --------------------------------------------------------------- handshake

\* BasicAuth { username, password } as its protobuf payload, and back.
BasicAuthEncode(username, password) == <<"auth", username, password>>

IsBasicAuth(payload) == Len(payload) = 3 /\ payload[1] = "auth"

BasicAuthDecode(payload) == [username |-> payload[2], password |-> payload[3]]

\* One item of Streaming<HandshakeRequest>: a frame, or a transport error.
Frame(payload) == [ok |-> TRUE, payload |-> payload]
BrokenFrame == [ok |-> FALSE, payload |-> <<>>]

Frames == {Frame(BasicAuthEncode("root", "pw")), Frame(BasicAuthEncode("root", "bad")),
           Frame(BasicAuthEncode("guest", "pw")), Frame(Garbage), BrokenFrame}

FrameSeqs == UNION {[1..k -> Frames] : k \in 0..MaxFrames}

\* The call slot: which RPC, on which node, with what input, how far it got.
NoCall ==
    [rpc |-> "none", phase |-> "idle", entry |-> NoNode, md |-> NoMetadata,
     frames |-> <<>>, entryRole |-> "", entryLeader |-> NoNode, budget |-> -1,
     at |-> NoNode, left |-> 0, data |-> <<>>, peerMd |-> NoMetadata,
     hops |-> 0, hfr |-> 0, decoded |-> FALSE, out |-> NoOut,
     producer |-> NoNode, prodRole |-> "", waitIndex |-> 0, waitTerm |-> 0,
     key |-> ""]

NewCall(rpc, n) == [NoCall EXCEPT !.rpc = rpc, !.entry = n, !.at = n]

Idle == call.phase = "idle"

\* handshake that answers every frame of the stream with a token.
handshake_reply_per_frame(frames) ==
    IF Len(frames) > 0 /\ frames[1].ok /\ IsBasicAuth(frames[1].payload)
       /\ BasicAuthDecode(frames[1].payload).username = "root"
    THEN LET token == try_create_token(FlightClaim("root"))
         IN  [out |-> StreamResponse([i \in 1..Len(frames) |-> token]),
              created |-> {token}]
    ELSE [out |-> Status("Internal", <<"error">>), created |-> {}]

\* handshake that issues the token before it looks at the username.
handshake_reply_any_user(frames) ==
    IF Len(frames) > 0 /\ frames[1].ok /\ IsBasicAuth(frames[1].payload)
    THEN LET token == try_create_token(FlightClaim("root"))
         IN  [out |-> StreamResponse(<<token>>), created |-> {token}]
    ELSE [out |-> Status("Internal", <<"error">>), created |-> {}]

\* handshake that issues the token only for the password of the principal.
handshake_reply_checks_password(frames) ==
    IF Len(frames) = 0
    THEN [out |-> Status("Internal", <<"Error request next is None">>), created |-> {}]
    ELSE IF ~frames[1].ok
    THEN [out |-> Status("Cancelled", <<"stream error">>), created |-> {}]
    ELSE IF ~IsBasicAuth(frames[1].payload)
    THEN [out |-> Status("Internal", <<"decode error">>), created |-> {}]
    ELSE LET auth == BasicAuthDecode(frames[1].payload)
         IN  IF auth.username = "root" /\ auth.password = "pw"
             THEN LET token == try_create_token(FlightClaim("root"))
                  IN  [out |-> StreamResponse(<<token>>), created |-> {token}]
             ELSE [out |-> Status("Unauthenticated", <<"Unknown user: ", auth.username>>),
                   created |-> {}]

\* What handshake does with the request stream: its reply and the tokens it
\* created on the way.
handshake_reply(frames) ==
    IF Len(frames) = 0
    THEN [out |-> Status("Internal", <<"Error request next is None">>), created |-> {}]
    ELSE IF ~frames[1].ok
    THEN [out |-> Status("Cancelled", <<"stream error">>), created |-> {}]
    ELSE IF ~IsBasicAuth(frames[1].payload)
    THEN [out |-> Status("Internal", <<"decode error">>), created |-> {}]
    ELSE LET auth == BasicAuthDecode(frames[1].payload)
             user == "root"
         IN  IF auth.username = user
             THEN LET token == try_create_token(FlightClaim(user))
                  IN  [out |-> StreamResponse(<<token>>), created |-> {token}]
             ELSE [out |-> Status("Unauthenticated", <<"Unknown user: ", auth.username>>),
                   created |-> {}]

\* MetaServiceImpl::handshake on node n.
handshake(n, frames) ==
    /\ Idle
    /\ LET r == handshake_reply(frames)
       IN  /\ call' = [NewCall("handshake", n) EXCEPT
                          !.phase = "done", !.frames = frames, !.out = r.out]
           /\ issued' = issued \cup r.created
    /\ UNCHANGED <<role, currentTerm, log, engineVars>>

\* ------------------------------------------------- forwardable requests

\* ForwardRequestBody: a write of a command, or an administrative operation.
WriteBody(cmd) == [tag |-> "Write", cmd |-> cmd]
AdminBody == [tag |-> "Admin", cmd |-> ""]
Bodies == {WriteBody(c) : c \in Cmd} \cup {AdminBody}

ForwardRequest(k, body) == [forward_to_leader |-> k, body |-> body]

\* serde_json text of a ForwardRequest, and back.
ForwardEncode(req) ==
    <<"fwd", NumStr(req.forward_to_leader), req.body.tag, req.body.cmd>>

IsForwardRequest(data) ==
    /\ Len(data) = 4
    /\ data[1] = "fwd"
    /\ IsNumStr(data[2])
    /\ data[3] \in {"Write", "Admin"}

ForwardDecode(data) ==
    ForwardRequest(StrNum(data[2]), [tag |-> data[3], cmd |-> data[4]])

\* serde_json text of the LogEntry a Write carries, and back (RaftRequest
\* try_into LogEntry).
LogEntryEncode(cmd) == <<"ent", cmd>>

IsLogEntry(data) == Len(data) = 2 /\ data[1] = "ent"

LogEntryDecode(data) == [cmd |-> data[2]]

WriteData == {LogEntryEncode(c) : c \in Cmd} \cup {Garbage}

ForwardData ==
    {ForwardEncode(ForwardRequest(k, b)) : k \in 0..MaxHops, b \in Bodies}
        \cup {Garbage}

\* Result<ForwardResponse, MetaError>.
OkRes(val) == [ok |-> TRUE, val |-> val]
ErrRes(val) == [ok |-> FALSE, val |-> val]

\* RaftReply::from(Result<..>): the value in data, or the error in error.
RaftReplyFrom(res) ==
    IF res.ok THEN Response(<<"json">> \o res.val, <<>>)
    ELSE Response(<<>>, <<"json">> \o res.val)

\* The Result a forwarding node reads back from the RaftReply of its peer.
ResultOfReply(reply) ==
    IF reply.error = <<>> THEN OkRes(Tail(reply.data))
    ELSE ErrRes(Tail(reply.error))

\* The token a node presents when it forwards to a peer.
PeerMetadata == TokenMetadata(try_create_token(FlightClaim("root")))

\* LogEntry { term, index, payload }.
LogEntry(t, i, cmd) == [term |-> t, index |-> i, cmd |-> cmd]

\* The engine of leader n appends cmd as a new entry of its term.
client_write(n, cmd) ==
    [log EXCEPT ![n] = Append(@, LogEntry(currentTerm[n], Len(@) + 1, cmd))]

\* MetaNode::handle_forwardable_request on node n; leader is the leader n
\* currently knows (NoNode: none), inTime whether the entry commits before
\* the caller's deadline.  Gives the result, or the hop to make, and the log.
handle_forwardable_request(n, req, leader, inTime) ==
    IF role[n] = Leader
    THEN IF req.body.tag = "Write"
         THEN [kind |-> "result",
               res |-> IF inTime THEN OkRes(<<"AppliedState", req.body.cmd>>)
                       ELSE ErrRes(<<"Timeout">>),
               log |-> client_write(n, req.body.cmd),
               to |-> NoNode, req |-> req]
         ELSE [kind |-> "result", res |-> OkRes(<<"AdminReply">>), log |-> log,
               to |-> NoNode, req |-> req]
    ELSE IF req.forward_to_leader = 0
    THEN [kind |-> "result", res |-> ErrRes(<<"ForwardLoop">>), log |-> log,
          to |-> NoNode, req |-> req]
    ELSE IF leader = NoNode
    THEN [kind |-> "result", res |-> ErrRes(<<"NotLeader">>), log |-> log,
          to |-> NoNode, req |-> req]
    ELSE [kind |-> "forward", res |-> ErrRes(<<>>), log |-> log, to |-> leader,
          req |-> [req EXCEPT !.forward_to_leader = @ - 1]]

RECURSIVE SumLen(_)
SumLen(S) ==
    IF S = {} THEN 0
    ELSE LET n == CHOOSE m \in S : TRUE IN Len(log[n]) + SumLen(S \ {n})

\* The logs have room for what handle_forwardable_request would append.
HasRoom(n, req) ==
    (role[n] = Leader /\ req.body.tag = "Write") =>
        (Len(log[n]) < MaxLog /\ SumLen(Node) < MaxWrites)

\* write that replies with what the result holds, an error or not.
write_reply_ignores_err(res) == RaftReplyFrom(OkRes(Tail(res.val)))

\* write, after handle_forwardable_request: the AppliedState is unwrapped out
\* of the response and the result becomes a RaftReply.
write_reply(res) ==
    IF res.ok /\ res.val[1] # "AppliedState"
    THEN Panic(<<"called Result::unwrap() on an Err value">>)
    ELSE RaftReplyFrom(IF res.ok THEN OkRes(Tail(res.val)) ELSE res)

\* forward, after handle_forwardable_request.
forward_reply(res) == RaftReplyFrom(res)

\* The reply of the handler the client called, for the result its node got.
EntryReply(rpc, res) ==
    IF rpc = "write" THEN write_reply(res) ELSE forward_reply(res)

\* The call record once node n has run handle_forwardable_request with
\* outcome h for request req.
AfterHandle(c, n, req, leader, h) ==
    LET c1 == [c EXCEPT
                 !.hfr = @ + 1,
                 !.entryRole = IF c.hfr = 0 THEN role[n] ELSE @,
                 !.entryLeader = IF c.hfr = 0 THEN leader ELSE @,
                 !.budget = IF c.hfr = 0 THEN req.forward_to_leader ELSE @]
    IN  IF h.kind = "forward"
        THEN [c1 EXCEPT !.phase = "forwarding", !.at = h.to,
                        !.left = h.req.forward_to_leader,
                        !.data = ForwardEncode(h.req), !.peerMd = PeerMetadata,
                        !.hops = @ + 1]
        ELSE [c1 EXCEPT !.phase = "done", !.producer = n, !.prodRole = role[n],
                        !.out = IF c.hops = 0 THEN EntryReply(c.rpc, h.res)
                                ELSE EntryReply(c.rpc,
                                         ResultOfReply(forward_reply(h.res)))]

\* The call record once the forward handler of node n has refused the
\* request with a status: the client gets it, or the forwarding peer turns
\* it into an error result.
AfterStatus(c, status) ==
    [c EXCEPT !.phase = "done",
              !.out = IF c.hops = 0 THEN status
                      ELSE EntryReply(c.rpc, ErrRes(<<"RpcStatus", status.code>>))]

\* write with forwarding switched off, and with a budget of two hops.
WriteForwardRequest_no_hop(ent) == ForwardRequest(0, WriteBody(ent.cmd))
WriteForwardRequest_two_hops(ent) == ForwardRequest(2, WriteBody(ent.cmd))

\* The ForwardRequest write enters handle_forwardable_request with.
WriteForwardRequest(ent) == ForwardRequest(1, WriteBody(ent.cmd))

\* write that verifies the token of the call first.
write_call_checks_token(n, md, data, leader, inTime) ==
    LET c == [NewCall("write", n) EXCEPT !.md = md]
        tok == check_token(md)
    IN  IF ~tok.ok
        THEN [call |-> AfterStatus(c, tok.status), log |-> log]
        ELSE IF ~IsLogEntry(data)
        THEN [call |-> AfterStatus([c EXCEPT !.decoded = TRUE],
                                   Status("InvalidArgument", <<"decode error">>)),
              log |-> log]
        ELSE LET req == WriteForwardRequest(LogEntryDecode(data))
                 h == handle_forwardable_request(n, req, leader, inTime)
             IN  [call |-> AfterHandle([c EXCEPT !.decoded = TRUE], n, req, leader, h),
                  log |-> h.log]

\* What write on node n does with a call that carries metadata md and body
\* data: the call record it leaves and the log.
write_call(n, md, data, leader, inTime) ==
    LET c == [NewCall("write", n) EXCEPT !.md = md, !.decoded = TRUE]
    IN  IF ~IsLogEntry(data)
        THEN [call |-> AfterStatus(c, Status("InvalidArgument", <<"decode error">>)),
              log |-> log]
        ELSE LET ent == LogEntryDecode(data)
                 req == WriteForwardRequest(ent)
                 h == handle_forwardable_request(n, req, leader, inTime)
             IN  [call |-> AfterHandle(c, n, req, leader, h), log |-> h.log]

\* MetaServiceImpl::write on node n.
write(n, md, data, leader, inTime) ==
    /\ Idle
    /\ IsLogEntry(data) => HasRoom(n, WriteForwardRequest(LogEntryDecode(data)))
    /\ LET w == write_call(n, md, data, leader, inTime)
       IN  /\ call' = w.call
           /\ log' = w.log
    /\ UNCHANGED <<role, currentTerm, issued, engineVars>>

\* GetReply of a get that looks the key up among the commands of the log.
get_reply_reads_log(n, md, key) ==
    IF \E i \in 1..Len(log[n]) : log[n][i].cmd = key
    THEN GetResponse(GetReply(TRUE, key, key))
    ELSE GetResponse(GetReply(FALSE, key, ""))

\* GetReply of a get that fails on a key the node does not hold.
get_reply_missing_is_error(n, md, key) ==
    IF \E i \in 1..Len(log[n]) : log[n][i].cmd = key
    THEN GetResponse(GetReply(FALSE, key, ""))
    ELSE Status("NotFound", <<key>>)

\* What get on node n answers to a call with metadata md for key.
get_reply(n, md, key) == GetResponse(GetReply(FALSE, key, ""))

\* The keys a client asks for: the key a Write wrote, and one nobody wrote.
GetKeys == Cmd \cup {"none"}

\* MetaServiceImpl::get on node n.
get(n, md, key) ==
    /\ Idle
    /\ call' = [NewCall("get", n) EXCEPT
                   !.phase = "done", !.md = md, !.key = key,
                   !.out = get_reply(n, md, key)]
    /\ UNCHANGED <<role, currentTerm, log, issued, engineVars>>

\* What forward on node n does with a call that carries metadata md and body
\* data, as part of the client call c.
forward_call(n, md, data, c, leader, inTime) ==
    LET tok == check_token(md)
    IN  IF ~tok.ok
        THEN [call |-> AfterStatus(c, tok.status), log |-> log]
        ELSE IF ~IsForwardRequest(data)
        THEN [call |-> AfterStatus([c EXCEPT !.decoded = TRUE],
                                   Status("InvalidArgument", <<"decode error">>)),
              log |-> log]
        ELSE LET req == ForwardDecode(data)
                 h == handle_forwardable_request(n, req, leader, inTime)
             IN  [call |-> AfterHandle([c EXCEPT !.decoded = TRUE], n, req, leader, h),
                  log |-> h.log]

\* MetaServiceImpl::forward on node n, for the call c it belongs to.
forward(n, md, data, c, leader, inTime) ==
    /\ (check_token(md).ok /\ IsForwardRequest(data)) =>
            HasRoom(n, ForwardDecode(data))
    /\ LET f == forward_call(n, md, data, c, leader, inTime)
       IN  /\ call' = f.call
           /\ log' = f.log
    /\ UNCHANGED <<role, currentTerm, issued, engineVars>>

\* A client calls Forward on node n.
ClientForward(n, md, data, leader, inTime) ==
    /\ Idle
    /\ forward(n, md, data, [NewCall("forward", n) EXCEPT !.md = md], leader, inTime)

\* The peer a request was forwarded to serves it.
PeerForward(leader, inTime) ==
    /\ call.phase = "forwarding"
    /\ forward(call.at, call.peerMd, call.data, call, leader, inTime)

\* The client takes the reply of its call.
ClientReturn ==
    /\ call.phase = "done"
    /\ call' = NoCall
    /\ UNCHANGED <<role, currentTerm, log, issued, engineVars>>

\* The consensus engine changes the role of node n (abstracted: an election,
\* a step-down, a restart).
LeadershipChange(n, r) ==
    /\ call.phase # "done"
    /\ role[n] # r
    /\ role' = [role EXCEPT ![n] = r]
    /\ UNCHANGED <<currentTerm, log, issued, call, engineVars>>

\* ------------------------------------------------------------------- Spec

Init ==
    /\ role = [n \in Node |-> Follower]
    /\ currentTerm = [n \in Node |-> 0]
    /\ log = [n \in Node |-> <<>>]
    /\ votedFor = [n \in Node |-> NoNode]
    /\ commitIndex = [n \in Node |-> 0]
    /\ votesGranted = [n \in Node |-> {}]
    /\ matchIndex = [n \in Node |-> [m \in Node |-> 0]]
    /\ committed = <<>>
    /\ elected = [t \in 1..MaxTerm |-> {}]
    /\ lastRpc = NoRpc
    /\ sm = [n \in Node |-> NoSm]
    /\ issued = {}
    /\ call = NoCall

Next ==
    \/ \E n \in Node, frames \in FrameSeqs : handshake(n, frames)
    \/ \E n \in Node, md \in CallerMetadata, data \in WriteData,
          leader \in Node \cup {NoNode}, inTime \in BOOLEAN :
            write(n, md, data, leader, inTime)
    \/ \E n \in Node, md \in CallerMetadata, key \in GetKeys : get(n, md, key)
    \/ \E n \in Node, md \in Metadata, data \in ForwardData,
          leader \in Node \cup {NoNode}, inTime \in BOOLEAN :
            ClientForward(n, md, data, leader, inTime)
    \/ \E leader \in Node \cup {NoNode}, inTime \in BOOLEAN :
            PeerForward(leader, inTime)
    \/ ClientReturn
    \/ \E n \in Node, r \in {Follower, Leader} : LeadershipChange(n, r)

Spec == Init /\ [][Next]_vars

\* ------------------------------------------------- claims on the adapter

\* The metadata carries a token that verifies against the signing key.
TokenVerifies(md) ==
    /\ Len(md) > 0
    /\ md[1] = "utf8"
    /\ try_verify_token(Tail(md)).ok

\* The first frame of the handshake stream decodes to a BasicAuth.
FirstAuth(frames) ==
    Len(frames) > 0 /\ frames[1].ok /\ IsBasicAuth(frames[1].payload)

FirstUser(frames) == BasicAuthDecode(frames[1].payload).username

JsonErr(e) == <<"json", e>>

\* C2: Forward is token-gated.  A Forward call reaches
\* handle_forwardable_request only with a token that verifies; a call whose
\* token is missing, malformed or unverifiable ends with an error status
\* before its body is decoded, is never forwarded, and leaves role, term, log
\* and the issued tokens of every node as they were.
C2_ForwardTokenGated ==
    /\ [](call.rpc = "forward" =>
            /\ (call.hfr > 0 => TokenVerifies(call.md))
            /\ (~TokenVerifies(call.md) =>
                    /\ call.phase = "done"
                    /\ call.out.kind = "Status"
                    /\ call.hfr = 0
                    /\ call.hops = 0
                    /\ ~call.decoded))
    /\ [][(call'.rpc = "forward" /\ call.phase = "idle" /\ ~TokenVerifies(call'.md))
            => UNCHANGED <<role, currentTerm, log, votedFor, commitIndex, issued>>]_vars

\* A Forward with a token of a foreign key was rejected on a leader.
C2_Witness ==
    /\ call.rpc = "forward"
    /\ call.phase = "done"
    /\ call.md = TokenMetadata(ForeignToken)
    /\ role[call.entry] = Leader
    /\ call.out.kind = "Status"

C4_ForwardLoopTermination ==
    call.hfr > 0 =>
        /\ call.hops <= call.budget
        /\ call.rpc = "write" => (call.budget = 1 /\ call.hops <= 1)
        /\ call.phase = "forwarding" =>
              /\ IsForwardRequest(call.data)
              /\ ForwardDecode(call.data).forward_to_leader = call.budget - call.hops
              /\ call.left = call.budget - call.hops
        /\ (call.phase = "done" /\ call.prodRole # Leader) =>
              (call.out.error = JsonErr("ForwardLoop") <=> call.hops = call.budget)

\* A Forward with the whole budget was passed on MaxHops times and then
\* failed with ForwardLoop.
C4_Witness ==
    /\ call.rpc = "forward"
    /\ call.phase = "done"
    /\ call.budget = MaxHops
    /\ call.hops = MaxHops
    /\ call.out.error = JsonErr("ForwardLoop")

C6_HandshakeUnknownUser ==
    /\ []((call.rpc = "handshake" /\ FirstAuth(call.frames)
            /\ FirstUser(call.frames) # "root") =>
            /\ call.out.kind = "Status"
            /\ call.out.code = "Unauthenticated"
            /\ call.out.msg = <<"Unknown user: ", FirstUser(call.frames)>>
            /\ call.out.stream = <<>>)
    /\ [][(call'.rpc = "handshake" /\ call.phase = "idle" /\ FirstAuth(call'.frames)
            /\ FirstUser(call'.frames) # "root") => issued' = issued]_vars

\* guest was refused while no token had been issued yet.
C6_Witness ==
    /\ call.rpc = "handshake"
    /\ call.phase = "done"
    /\ FirstAuth(call.frames)
    /\ FirstUser(call.frames) = "guest"
    /\ call.out.code = "Unauthenticated"
    /\ issued = {}

\* C14: Get never fails.  Every Get ends with a reply, never with an error
\* status; for a key the node does not hold the reply says ok = false and
\* gives the key back; and the call changes nothing on any node.
C14_GetNeverErrors ==
    /\ [](call.rpc = "get" =>
            /\ call.phase = "done"
            /\ call.out.kind = "Response"
            /\ (\A i \in 1..Len(log[call.entry]) : log[call.entry][i].cmd # call.key) =>
                  /\ call.out.get.ok = FALSE
                  /\ call.out.get.key = call.key)
    /\ [][(call.phase = "idle" /\ call'.rpc = "get") =>
            UNCHANGED <<role, currentTerm, log, votedFor, commitIndex, votesGranted,
                        matchIndex, committed, sm, issued>>]_vars

\* A Get for a key nobody wrote, on a Leader that holds a written entry.
C14_Witness ==
    /\ call.rpc = "get"
    /\ call.key = "none"
    /\ role[call.entry] = Leader
    /\ Len(log[call.entry]) > 0
    /\ call.out.get = GetReply(FALSE, "none", "")

\* C19: the reply of Get does not depend on what was written.  Whatever the
\* node holds, a written key included, the reply is ok = false with the key
\* given back and an empty value.
C19_GetIgnoresStore ==
    call.rpc = "get" =>
        /\ call.out.kind = "Response"
        /\ call.out.get = GetReply(FALSE, call.key, "")

\* A Get for the key of a Write that a Leader took, on that Leader.
C19_Witness ==
    /\ call.rpc = "get"
    /\ role[call.entry] = Leader
    /\ \E i \in 1..Len(log[call.entry]) : log[call.entry][i].cmd = call.key
    /\ call.out.get.ok = FALSE

C8_BadTokenUnauthenticated ==
    (call.rpc = "forward" /\ call.phase = "done" /\ ~TokenVerifies(call.md)) =>
        /\ call.out.kind = "Status"
        /\ call.out.code = "Unauthenticated"

\* ------------------------------------------------------ consensus messages

Bool(b) == IF b THEN "true" ELSE "false"

\* VoteRequest as serde_json text, and back.
VoteRequest(term, candidate, lastIndex, lastTerm) ==
    [term |-> term, candidate_id |-> candidate,
     last_log_index |-> lastIndex, last_log_term |-> lastTerm]

VoteEncode(req) ==
    <<"vote", NumStr(req.term), NumStr(req.candidate_id),
      NumStr(req.last_log_index), NumStr(req.last_log_term)>>

IsVoteRequest(data) ==
    Len(data) = 5 /\ data[1] = "vote" /\ \A k \in 2..5 : IsNumStr(data[k])

\* A decoder that takes the term of the request for the term of the
\* candidate's last entry.
VoteDecode_term_for_last(data) ==
    VoteRequest(StrNum(data[2]), StrNum(data[3]), StrNum(data[4]), StrNum(data[2]))

VoteDecode(data) ==
    VoteRequest(StrNum(data[2]), StrNum(data[3]), StrNum(data[4]), StrNum(data[5]))

\* VoteResponse { term, vote_granted }.
VoteResponseEncode(resp) == <<"voted", NumStr(resp.term), Bool(resp.vote_granted)>>

VoteResponseDecode(data) ==
    [term |-> StrNum(data[2]), vote_granted |-> data[3] = "true"]

\* The entries of a request, three fields each, in one flat text.
RECURSIVE EntriesEncode(_)
EntriesEncode(entries) ==
    IF entries = <<>> THEN <<>>
    ELSE <<NumStr(Head(entries).term), NumStr(Head(entries).index), Head(entries).cmd>>
             \o EntriesEncode(Tail(entries))

EntriesDecode(text) ==
    [k \in 1..(Len(text) \div 3) |->
        LogEntry(StrNum(text[3 * k - 2]), StrNum(text[3 * k - 1]), text[3 * k])]

\* AppendEntriesRequest as serde_json text, and back.
AppendEntriesRequest(term, leader, prevIndex, prevTerm, entries, leaderCommit) ==
    [term |-> term, leader_id |-> leader, prev_log_index |-> prevIndex,
     prev_log_term |-> prevTerm, entries |-> entries, leader_commit |-> leaderCommit]

AppendEntriesEncode(req) ==
    <<"append", NumStr(req.term), NumStr(req.leader_id), NumStr(req.prev_log_index),
      NumStr(req.prev_log_term), NumStr(req.leader_commit)>>
        \o EntriesEncode(req.entries)

IsAppendEntriesRequest(data) ==
    /\ Len(data) >= 6
    /\ data[1] = "append"
    /\ \A k \in 2..6 : IsNumStr(data[k])
    /\ (Len(data) - 6) % 3 = 0

\* A decoder that loses the position the entries follow.
AppendEntriesDecode_no_prev(data) ==
    AppendEntriesRequest(StrNum(data[2]), StrNum(data[3]), 0, 0,
                         EntriesDecode(SubSeq(data, 7, Len(data))), StrNum(data[6]))

AppendEntriesDecode(data) ==
    AppendEntriesRequest(StrNum(data[2]), StrNum(data[3]), StrNum(data[4]),
                         StrNum(data[5]), EntriesDecode(SubSeq(data, 7, Len(data))),
                         StrNum(data[6]))

\* AppendEntriesResponse { term, success }.
AppendEntriesResponseEncode(resp) ==
    <<"appended", NumStr(resp.term), Bool(resp.success)>>

AppendEntriesResponseDecode(data) ==
    [term |-> StrNum(data[2]), success |-> data[3] = "true"]

\* InstallSnapshotRequest: the state machine up to (last_included_index,
\* last_included_term), here the commands that built it.
InstallSnapshotRequest(term, leader, lastIndex, lastTerm, entries) ==
    [term |-> term, leader_id |-> leader, last_included_index |-> lastIndex,
     last_included_term |-> lastTerm, data |-> entries]

InstallSnapshotEncode(req) ==
    <<"snapshot", NumStr(req.term), NumStr(req.leader_id),
      NumStr(req.last_included_index), NumStr(req.last_included_term)>>
        \o EntriesEncode(req.data)

IsInstallSnapshotRequest(data) ==
    /\ Len(data) >= 5
    /\ data[1] = "snapshot"
    /\ \A k \in 2..5 : IsNumStr(data[k])
    /\ (Len(data) - 5) % 3 = 0

InstallSnapshotDecode(data) ==
    InstallSnapshotRequest(StrNum(data[2]), StrNum(data[3]), StrNum(data[4]),
                           StrNum(data[5]), EntriesDecode(SubSeq(data, 6, Len(data))))

\* InstallSnapshotResponse { term }.
InstallSnapshotResponseEncode(resp) == <<"installed", NumStr(resp.term)>>

InstallSnapshotResponseDecode(data) == [term |-> StrNum(data[2])]

\* ------------------------------------------------------- consensus engine

Max(a, b) == IF a >= b THEN a ELSE b
Min(a, b) == IF a <= b THEN a ELSE b

LastTerm(l) == IF Len(l) = 0 THEN 0 ELSE l[Len(l)].term

IsMajority(S) == 2 * Cardinality(S) > Cardinality(Node)

\* The state of one node, as the engine reads and writes it.
NodeState(n) ==
    [term |-> currentTerm[n], role |-> role[n], votedFor |-> votedFor[n],
     log |-> log[n], commit |-> commitIndex[n]]

\* A higher term seen in a message: adopt it and fall back to Follower.
Observe(st, term) ==
    IF term > st.term
    THEN [st EXCEPT !.term = term, !.role = Follower, !.votedFor = NoNode]
    ELSE st

\* Raft::vote on a node in state st: the new state and the response.
RaftVote(st, req) ==
    LET s1 == Observe(st, req.term)
        upToDate ==
            \/ req.last_log_term > LastTerm(st.log)
            \/ /\ req.last_log_term = LastTerm(st.log)
               /\ req.last_log_index >= Len(st.log)
        grant ==
            /\ req.term >= st.term
            /\ s1.votedFor \in {NoNode, req.candidate_id}
            /\ upToDate
    IN  [state |-> IF grant THEN [s1 EXCEPT !.votedFor = req.candidate_id] ELSE s1,
         resp |-> [term |-> s1.term, vote_granted |-> grant]]

\* Raft::append_entries on a node in state st.
RaftAppendEntries(st, req) ==
    IF req.term < st.term
    THEN [state |-> st, resp |-> [term |-> st.term, success |-> FALSE]]
    ELSE LET s1 == [Observe(st, req.term) EXCEPT !.role = Follower]
             prev == req.prev_log_index
             prevOk ==
                 \/ prev = 0
                 \/ /\ prev <= Len(st.log)
                    /\ st.log[prev].term = req.prev_log_term
             n == Len(req.entries)
             present ==
                 \A k \in 1..n :
                     /\ prev + k <= Len(st.log)
                     /\ st.log[prev + k].term = req.entries[k].term
             log1 == IF present THEN st.log
                     ELSE SubSeq(st.log, 1, prev) \o req.entries
             commit1 == Max(st.commit, Min(req.leader_commit, prev + n))
         IN  IF ~prevOk
             THEN [state |-> s1, resp |-> [term |-> s1.term, success |-> FALSE]]
             ELSE [state |-> [s1 EXCEPT !.log = log1, !.commit = commit1],
                   resp |-> [term |-> s1.term, success |-> TRUE]]

\* Raft::install_snapshot on a node in state st.
RaftInstallSnapshot(st, req) ==
    IF req.term < st.term
    THEN [state |-> st, resp |-> [term |-> st.term]]
    ELSE LET s1 == [Observe(st, req.term) EXCEPT !.role = Follower]
             last == req.last_included_index
             kept == IF /\ last <= Len(st.log)
                        /\ last > 0
                        /\ st.log[last].term = req.last_included_term
                     THEN SubSeq(st.log, last + 1, Len(st.log))
                     ELSE <<>>
         IN  [state |-> [s1 EXCEPT !.log = req.data \o kept,
                                   !.commit = Max(st.commit, last)],
              resp |-> [term |-> s1.term]]

\* What can go wrong while a consensus RPC is served: the engine returns an
\* error, serde_json::to_string fails on the response, the reply is lost on
\* its way back.
Faults == {"none", "raft", "serialize", "lost"}

\* The faults that change what the peers see of each other: an engine error
\* leaves both sides as they were, and a handler that unwinds after the engine
\* has answered is, for the caller, a lost reply.
PeerFaults == {"none", "lost"}

\* vote that answers with a granted vote whatever the engine said.
vote_grants_all(st, md, data, fault) ==
    IF ~IsVoteRequest(data)
    THEN [state |-> st, out |-> Status("Internal", <<"decode error">>)]
    ELSE IF fault = "raft"
    THEN [state |-> st, out |-> Status("Internal", <<"raft error">>)]
    ELSE LET r == RaftVote(st, VoteDecode(data))
         IN  [state |-> r.state,
              out |-> IF fault = "serialize" THEN Panic(<<"fail to serialize resp">>)
                      ELSE Response(VoteResponseEncode(
                               [r.resp EXCEPT !.vote_granted = TRUE]), <<>>)]

\* MetaServiceImpl::vote on a node in state st, for a call with metadata md
\* and body data: the node's new state and the handler's outcome.
vote(st, md, data, fault) ==
    IF ~IsVoteRequest(data)
    THEN [state |-> st, out |-> Status("Internal", <<"decode error">>)]
    ELSE IF fault = "raft"
    THEN [state |-> st, out |-> Status("Internal", <<"raft error">>)]
    ELSE LET r == RaftVote(st, VoteDecode(data))
         IN  [state |-> r.state,
              out |-> IF fault = "serialize" THEN Panic(<<"fail to serialize resp">>)
                      ELSE Response(VoteResponseEncode(r.resp), <<>>)]

\* append_entries that answers success whatever the engine said.
append_entries_acks_all(st, md, data, fault) ==
    IF ~IsAppendEntriesRequest(data)
    THEN [state |-> st, out |-> Status("Internal", <<"decode error">>)]
    ELSE IF fault = "raft"
    THEN [state |-> st, out |-> Status("Internal", <<"raft error">>)]
    ELSE LET r == RaftAppendEntries(st, AppendEntriesDecode(data))
         IN  [state |-> r.state,
              out |-> IF fault = "serialize" THEN Panic(<<"fail to serialize resp">>)
                      ELSE Response(AppendEntriesResponseEncode(
                               [r.resp EXCEPT !.success = TRUE]), <<>>)]

\* append_entries that takes every sender for a leader of the node's term.
append_entries_any_term(st, md, data, fault) ==
    IF ~IsAppendEntriesRequest(data)
    THEN [state |-> st, out |-> Status("Internal", <<"decode error">>)]
    ELSE IF fault = "raft"
    THEN [state |-> st, out |-> Status("Internal", <<"raft error">>)]
    ELSE LET req == AppendEntriesDecode(data)
             r == RaftAppendEntries(st, [req EXCEPT !.term = Max(@, st.term)])
         IN  [state |-> r.state,
              out |-> IF fault = "serialize" THEN Panic(<<"fail to serialize resp">>)
                      ELSE Response(AppendEntriesResponseEncode(r.resp), <<>>)]

\* MetaServiceImpl::append_entries.
append_entries(st, md, data, fault) ==
    IF ~IsAppendEntriesRequest(data)
    THEN [state |-> st, out |-> Status("Internal", <<"decode error">>)]
    ELSE IF fault = "raft"
    THEN [state |-> st, out |-> Status("Internal", <<"raft error">>)]
    ELSE LET r == RaftAppendEntries(st, AppendEntriesDecode(data))
         IN  [state |-> r.state,
              out |-> IF fault = "serialize" THEN Panic(<<"fail to serialize resp">>)
                      ELSE Response(AppendEntriesResponseEncode(r.resp), <<>>)]

\* MetaServiceImpl::install_snapshot.
install_snapshot(st, md, data, fault) ==
    IF ~IsInstallSnapshotRequest(data)
    THEN [state |-> st, out |-> Status("Internal", <<"decode error">>)]
    ELSE IF fault = "raft"
    THEN [state |-> st, out |-> Status("Internal", <<"raft error">>)]
    ELSE LET r == RaftInstallSnapshot(st, InstallSnapshotDecode(data))
         IN  [state |-> r.state,
              out |-> IF fault = "serialize" THEN Panic(<<"fail to serialize resp">>)
                      ELSE Response(InstallSnapshotResponseEncode(r.resp), <<>>)]

\* The caller has the reply of the handler in its hands.
Replied(out, fault) == out.kind = "Response" /\ fault # "lost"

States == [n \in Node |-> NodeState(n)]

NoMatch == [m \in Node |-> 0]

\* The next state of the engine variables: every node in state S[n], the
\* candidates with votes V[n], the leaders with match indexes M[n].
Become(S, V, M) ==
    /\ currentTerm' = [n \in Node |-> S[n].term]
    /\ role' = [n \in Node |-> S[n].role]
    /\ votedFor' = [n \in Node |-> S[n].votedFor]
    /\ log' = [n \in Node |-> S[n].log]
    /\ commitIndex' = [n \in Node |-> S[n].commit]
    /\ votesGranted' = [n \in Node |-> IF S[n].role = Candidate THEN V[n] ELSE {}]
    /\ matchIndex' = [n \in Node |-> IF S[n].role = Leader THEN M[n] ELSE NoMatch]

\* The election timer of node n fires: it campaigns in the next term.
Timeout(n) ==
    /\ role[n] \in {Follower, Candidate}
    /\ currentTerm[n] < MaxTerm
    /\ Become([States EXCEPT ![n] = [@ EXCEPT !.term = @ + 1, !.role = Candidate,
                                               !.votedFor = n]],
              [votesGranted EXCEPT ![n] = {n}], matchIndex)
    /\ UNCHANGED <<committed, elected, lastRpc, sm, issued, call>>

\* Candidate i asks node j for its vote, j serves the Vote RPC and i reads
\* the reply.
RequestVote(i, j, fault) ==
    /\ role[i] = Candidate
    /\ j # i
    /\ j \notin votesGranted[i]
    /\ LET req == VoteRequest(currentTerm[i], i, Len(log[i]), LastTerm(log[i]))
           h == vote(NodeState(j), PeerMetadata, VoteEncode(req), fault)
           resp == VoteResponseDecode(h.out.data)
           si == IF Replied(h.out, fault) THEN Observe(NodeState(i), resp.term)
                 ELSE NodeState(i)
           granted == /\ Replied(h.out, fault)
                      /\ resp.vote_granted
                      /\ resp.term = currentTerm[i]
       IN  Become([States EXCEPT ![j] = h.state, ![i] = si],
                  [votesGranted EXCEPT ![i] = IF granted THEN @ \cup {j} ELSE @],
                  matchIndex)
    /\ UNCHANGED <<committed, elected, lastRpc, sm, issued, call>>

\* Candidate n holds the votes of a majority.
BecomeLeader(n) ==
    /\ role[n] = Candidate
    /\ IsMajority(votesGranted[n])
    /\ Become([States EXCEPT ![n] = [@ EXCEPT !.role = Leader]], votesGranted,
              [matchIndex EXCEPT ![n] = NoMatch])
    /\ elected' = [elected EXCEPT ![currentTerm[n]] = @ \cup {n}]
    /\ UNCHANGED <<committed, lastRpc, sm, issued, call>>

\* Leader n takes a write (handle_forwardable_request, step 1).
ClientWrite(n, cmd) ==
    /\ role[n] = Leader
    /\ Len(log[n]) < MaxLog
    /\ log' = client_write(n, cmd)
    /\ UNCHANGED <<role, currentTerm, votedFor, commitIndex, votesGranted, matchIndex,
                   committed, elected, lastRpc, sm, issued, call>>

\* Leader i sends node j the entries after prev (none: a heartbeat), j serves
\* the AppendEntries RPC and i reads the reply.
AppendEntries(i, j, prev, fault) ==
    /\ role[i] = Leader
    /\ j # i
    /\ prev \in 0..Len(log[i])
    /\ LET entries == SubSeq(log[i], prev + 1, Len(log[i]))
           req == AppendEntriesRequest(currentTerm[i], i, prev,
                      IF prev = 0 THEN 0 ELSE log[i][prev].term, entries,
                      commitIndex[i])
           h == append_entries(NodeState(j), PeerMetadata, AppendEntriesEncode(req), fault)
           resp == AppendEntriesResponseDecode(h.out.data)
           si == IF Replied(h.out, fault) THEN Observe(NodeState(i), resp.term)
                 ELSE NodeState(i)
           acked == /\ Replied(h.out, fault)
                    /\ resp.success
                    /\ resp.term = currentTerm[i]
       IN  Become([States EXCEPT ![j] = h.state, ![i] = si], votesGranted,
                  [matchIndex EXCEPT ![i][j] =
                      IF acked THEN Max(@, Len(log[i])) ELSE @])
    /\ UNCHANGED <<committed, elected, lastRpc, sm, issued, call>>

\* Leader i sends node j its snapshot, j serves the InstallSnapshot RPC and i
\* reads the reply.
InstallSnapshot(i, j, fault) ==
    /\ role[i] = Leader
    /\ j # i
    /\ commitIndex[i] > 0
    /\ LET last == commitIndex[i]
           req == InstallSnapshotRequest(currentTerm[i], i, last, log[i][last].term,
                                         SubSeq(log[i], 1, last))
           h == install_snapshot(NodeState(j), PeerMetadata, InstallSnapshotEncode(req), fault)
           resp == InstallSnapshotResponseDecode(h.out.data)
           si == IF Replied(h.out, fault) THEN Observe(NodeState(i), resp.term)
                 ELSE NodeState(i)
           acked == Replied(h.out, fault) /\ resp.term = currentTerm[i]
       IN  Become([States EXCEPT ![j] = h.state, ![i] = si], votesGranted,
                  [matchIndex EXCEPT ![i][j] = IF acked THEN Max(@, last) ELSE @])
    /\ UNCHANGED <<committed, elected, lastRpc, sm, issued, call>>

\* The entries of leader n it may commit: of its own term, held by a majority.
Committable(n) ==
    {k \in (commitIndex[n] + 1)..Len(log[n]) :
        /\ log[n][k].term = currentTerm[n]
        /\ IsMajority({n} \cup {m \in Node : matchIndex[n][m] >= k})}

SetMax(S) == CHOOSE k \in S : \A m \in S : m <= k

\* Leader n advances its commit index.
AdvanceCommit(n) ==
    /\ role[n] = Leader
    /\ Committable(n) # {}
    /\ LET c == SetMax(Committable(n))
       IN  /\ commitIndex' = [commitIndex EXCEPT ![n] = c]
           /\ committed' =
                 [k \in 1..Max(c, Len(committed)) |->
                     IF k <= Len(committed) /\ (k > c \/ committed[k].entry = log[n][k])
                     THEN committed[k]
                     ELSE [entry |-> log[n][k], term |-> currentTerm[n]]]
    /\ UNCHANGED <<role, currentTerm, log, votedFor, votesGranted, matchIndex,
                   elected, lastRpc, sm, issued, call>>

\* Node n crashes and comes back: what it persisted is still there.
Restart(n) ==
    /\ role[n] # Follower
    /\ Become([States EXCEPT ![n] = [@ EXCEPT !.role = Follower]], votesGranted,
              matchIndex)
    /\ UNCHANGED <<committed, elected, lastRpc, sm, issued, call>>

\* The nodes whose election timer fires; the third node votes, follows and
\* serves the RPCs of both.
Campaigners == {1, 2}

\* The reply to a Vote RPC may be lost; the replies to the RPCs of a leader
\* arrive.
RaftNext ==
    \/ \E n \in Campaigners : Timeout(n)
    \/ \E i, j \in Node, fault \in PeerFaults : RequestVote(i, j, fault)
    \/ \E n \in Node : BecomeLeader(n)
    \/ \E n \in Node, cmd \in Cmd : ClientWrite(n, cmd)
    \/ \E i, j \in Node, prev \in 0..MaxLog : AppendEntries(i, j, prev, "none")
    \/ \E i, j \in Node : InstallSnapshot(i, j, "none")
    \/ \E n \in Node : AdvanceCommit(n)
    \/ \E n \in Node : Restart(n)

SpecRaft == Init /\ [][RaftNext]_vars

\* --------------------------------------------------------------- SpecRpc
\* The three consensus handlers of one node, served with whatever a peer may
\* send: the RPCs carry no token, so any sequence of requests can arrive.

\* The node whose handlers are driven, and the peers that call it.
Served == {1}
Peers == Node \ Served

\* The requests a peer can send.
VoteRequests ==
    {VoteRequest(t, c, li, lt) :
        t \in 1..MaxTerm, c \in Peers, li \in 0..MaxLog, lt \in 0..MaxTerm}

AppendRequests ==
    {AppendEntriesRequest(t, l, prev, pt,
                          IF c = "" THEN <<>> ELSE <<LogEntry(t, prev + 1, c)>>, lc) :
        t \in 1..MaxTerm, l \in Peers, prev \in 0..(MaxLog - 1), pt \in 0..MaxTerm,
        c \in Cmd \cup {""}, lc \in 0..MaxLog}

SnapshotRequests ==
    {InstallSnapshotRequest(t, l, last, lt, [k \in 1..last |-> LogEntry(lt, k, "x")]) :
        t \in 1..MaxTerm, l \in Peers, last \in 1..MaxLog, lt \in 1..MaxTerm}

\* A well-formed request: its log positions and terms fit together.
FitsVote(req) ==
    /\ req.last_log_term <= req.term
    /\ (req.last_log_index = 0) = (req.last_log_term = 0)

FitsAppend(req) ==
    /\ req.prev_log_term <= req.term
    /\ (req.prev_log_index = 0) = (req.prev_log_term = 0)

\* Node n serves a Vote RPC.
ServeVote(n, md, data, fault) ==
    /\ LET h == vote(NodeState(n), md, data, fault)
       IN  /\ Become([States EXCEPT ![n] = h.state], votesGranted, matchIndex)
           /\ lastRpc' = RpcOutcome("vote", fault, IsVoteRequest(data),
                                    /\ IsVoteRequest(data)
                                    /\ VoteDecode(data).term < currentTerm[n], h.out)
    /\ UNCHANGED <<committed, elected, sm, issued, call>>

\* Node n serves an AppendEntries RPC.
ServeAppendEntries(n, md, data, fault) ==
    /\ LET h == append_entries(NodeState(n), md, data, fault)
       IN  /\ Become([States EXCEPT ![n] = h.state], votesGranted, matchIndex)
           /\ lastRpc' = RpcOutcome("append_entries", fault,
                                    IsAppendEntriesRequest(data),
                                    /\ IsAppendEntriesRequest(data)
                                    /\ AppendEntriesDecode(data).term < currentTerm[n],
                                    h.out)
    /\ UNCHANGED <<committed, elected, sm, issued, call>>

\* Node n serves an InstallSnapshot RPC.
ServeInstallSnapshot(n, md, data, fault) ==
    /\ LET h == install_snapshot(NodeState(n), md, data, fault)
       IN  /\ Become([States EXCEPT ![n] = h.state], votesGranted, matchIndex)
           /\ lastRpc' = RpcOutcome("install_snapshot", fault,
                                    IsInstallSnapshotRequest(data),
                                    /\ IsInstallSnapshotRequest(data)
                                    /\ InstallSnapshotDecode(data).term < currentTerm[n],
                                    h.out)
    /\ UNCHANGED <<committed, elected, sm, issued, call>>

\* The metadata of the calls of a peer: the consensus RPCs carry no token.
RpcMetadata == {NoMetadata}

\* The faults the served node itself meets; whether its reply arrives is the
\* caller's matter.
RpcFaults == Faults \ {"lost"}

RpcNext ==
    \/ \E n \in Served, md \in RpcMetadata, req \in VoteRequests, fault \in RpcFaults :
            FitsVote(req) /\ ServeVote(n, md, VoteEncode(req), fault)
    \/ \E n \in Served, md \in RpcMetadata, req \in AppendRequests, fault \in RpcFaults :
            FitsAppend(req) /\ ServeAppendEntries(n, md, AppendEntriesEncode(req), fault)
    \/ \E n \in Served, md \in RpcMetadata, req \in SnapshotRequests, fault \in RpcFaults :
            ServeInstallSnapshot(n, md, InstallSnapshotEncode(req), fault)
    \/ \E n \in Served, md \in RpcMetadata : ServeVote(n, md, Garbage, "none")
    \/ \E n \in Served, md \in RpcMetadata : ServeAppendEntries(n, md, Garbage, "none")
    \/ \E n \in Served, md \in RpcMetadata :
            ServeInstallSnapshot(n, md, Garbage, "none")

SpecRpc == Init /\ [][RpcNext]_vars

\* ------------------------------------------------------------- SpecWrite
\* A client Write on a node that holds itself Leader, with the engine running
\* underneath: handle_forwardable_request appends the entry, then waits until
\* the entry commits or the caller's deadline passes.  The client takes its
\* reply before the engine moves on; an RPC between two nodes is served and
\* answered, or (the nodes being partitioned) not made.

\* write on node n, up to the wait for the commit.
WriteSubmit(n, data) ==
    /\ Idle
    /\ role[n] = Leader
    /\ IsLogEntry(data)
    /\ Len(log[n]) < MaxLog
    /\ LET req == WriteForwardRequest(LogEntryDecode(data))
       IN  /\ log' = client_write(n, req.body.cmd)
           /\ call' = [NewCall("write", n) EXCEPT
                          !.phase = "waiting", !.decoded = TRUE, !.hfr = 1,
                          !.entryRole = role[n], !.entryLeader = n,
                          !.budget = req.forward_to_leader, !.data = data,
                          !.waitIndex = Len(log[n]) + 1, !.waitTerm = currentTerm[n]]
    /\ UNCHANGED <<role, currentTerm, votedFor, commitIndex, votesGranted, matchIndex,
                   committed, elected, lastRpc, sm, issued>>

\* The entry the waiting write appended.
WaitEntry == LogEntry(call.waitTerm, call.waitIndex, LogEntryDecode(call.data).cmd)

\* The engine of the node has committed and applied the entry: the write
\* returns its AppliedState.
WriteApplied ==
    /\ call.phase = "waiting"
    /\ commitIndex[call.at] >= call.waitIndex
    /\ Len(log[call.at]) >= call.waitIndex
    /\ log[call.at][call.waitIndex] = WaitEntry
    /\ call' = [call EXCEPT
                   !.phase = "done", !.producer = call.at, !.prodRole = role[call.at],
                   !.out = write_reply(OkRes(<<"AppliedState", WaitEntry.cmd>>))]
    /\ UNCHANGED <<role, currentTerm, log, issued, engineVars>>

\* The deadline of the caller passes first: the write returns an error, the
\* entry stays where it is.
WriteTimeout ==
    /\ call.phase = "waiting"
    /\ call' = [call EXCEPT
                   !.phase = "done", !.producer = call.at, !.prodRole = role[call.at],
                   !.out = write_reply(ErrRes(<<"Timeout">>))]
    /\ UNCHANGED <<role, currentTerm, log, issued, engineVars>>

WriteNext ==
    \/ \E n \in Node, data \in WriteData : WriteSubmit(n, data)
    \/ WriteApplied
    \/ WriteTimeout
    \/ ClientReturn
    \/ \E n \in Campaigners : call.phase # "done" /\ Timeout(n)
    \/ \E i, j \in Node : call.phase # "done" /\ RequestVote(i, j, "none")
    \/ \E n \in Node : call.phase # "done" /\ BecomeLeader(n)
    \/ \E i, j \in Node, prev \in 0..MaxLog :
            call.phase # "done" /\ AppendEntries(i, j, prev, "none")
    \/ \E n \in Node : call.phase # "done" /\ AdvanceCommit(n)

SpecWrite == Init /\ [][WriteNext]_vars

\* ---------------------------------------------------------------- SpecSM
\* The Replicated State Machine of two nodes under an engine that commits
\* expected-version writes: the cluster commits an entry, a node learns how
\* far the log is committed, a node applies, a node takes the state of
\* another as a snapshot.

\* The nodes whose state machines are followed.
Replicas == {1, 2}

\* The writes clients issue.
Upserts == {Upsert(k, e, v) : k \in Keys, e \in 0..(MaxApply - 2), v \in Values}

\* The cluster commits a write as the next entry of the log.
Commit(cmd) ==
    /\ Len(committed) < MaxApply
    /\ committed' = Append(committed,
                           [entry |-> LogEntry(1, Len(committed) + 1, cmd), term |-> 1])
    /\ UNCHANGED <<role, currentTerm, log, votedFor, commitIndex, votesGranted,
                   matchIndex, elected, lastRpc, sm, issued, call>>

\* Node n holds the log up to index k and knows it committed.
Learn(n, k) ==
    /\ k > commitIndex[n]
    /\ k <= Len(committed)
    /\ log' = [log EXCEPT ![n] = [i \in 1..k |-> committed[i].entry]]
    /\ commitIndex' = [commitIndex EXCEPT ![n] = k]
    /\ UNCHANGED <<role, currentTerm, votedFor, votesGranted, matchIndex, committed,
                   elected, lastRpc, sm, issued, call>>

\* A state machine that takes the newest committed entry next.
NewestCommitted(n) == commitIndex[n]

\* The index of the entry node n applies next.
NextToApply(n) == sm[n].last + 1

\* Node n applies the next committed entry to its state machine.
Apply(n) ==
    /\ sm[n].last < commitIndex[n]
    /\ LET k == NextToApply(n)
           r == apply(sm[n].store, log[n][k].cmd)
       IN  sm' = [sm EXCEPT ![n] =
                     [last |-> k, store |-> r.store,
                      results |-> Append(@.results, [index |-> k, state |-> r.state])]]
    /\ UNCHANGED <<role, currentTerm, log, votedFor, commitIndex, votesGranted,
                   matchIndex, committed, elected, lastRpc, issued, call>>

\* Node n installs the snapshot of node m: the contents of its state machine
\* and the log prefix are replaced by those of the snapshot.
InstallState(n, m) ==
    /\ sm[m].last > sm[n].last
    /\ sm' = [sm EXCEPT ![n] = [@ EXCEPT !.last = sm[m].last, !.store = sm[m].store]]
    /\ log' = [log EXCEPT ![n] =
                  SubSeq(log[m], 1, sm[m].last) \o SubSeq(@, sm[m].last + 1, Len(@))]
    /\ commitIndex' = [commitIndex EXCEPT ![n] = Max(@, sm[m].last)]
    /\ UNCHANGED <<role, currentTerm, votedFor, votesGranted, matchIndex, committed,
                   elected, lastRpc, issued, call>>

SmNext ==
    \/ \E cmd \in Upserts : Commit(cmd)
    \/ \E n \in Replicas, k \in 1..MaxApply : Learn(n, k)
    \/ \E n \in Replicas : Apply(n)
    \/ \E n, m \in Replicas : InstallState(n, m)

SpecSM == Init /\ [][SmNext]_vars

\* ---------------------------------------------- claims on the consensus

\* C1: election safety.  Whatever the timeouts, lost replies and restarts, no
\* two distinct nodes are Leader of the same term, neither at the same time
\* nor one after the other.
C1_ElectionSafety ==
    /\ \A t \in 1..MaxTerm : Cardinality(elected[t]) <= 1
    /\ \A n \in Node : role[n] = Leader => n \in elected[currentTerm[n]]

\* Two nodes are Leader at once, each of its own term.
C1_Witness ==
    \E i, j \in Node :
        /\ role[i] = Leader
        /\ role[j] = Leader
        /\ currentTerm[i] < currentTerm[j]

\* C7: leader completeness.  An entry committed in some term is, unaltered and
\* at the same index, in the log of every Leader of a later term; and what is
\* committed is never lost or replaced.
C7_LeaderCompleteness ==
    /\ [](\A n \in Node : \A k \in 1..Len(committed) :
            (role[n] = Leader /\ committed[k].term < currentTerm[n]) =>
                /\ Len(log[n]) >= k
                /\ log[n][k] = committed[k].entry)
    /\ [][\A k \in 1..Len(committed) :
            /\ Len(committed') >= k
            /\ committed'[k] = committed[k]]_vars

\* An entry was committed in term 1 and a Leader of a later term holds it.
C7_Witness ==
    \E n \in Node :
        /\ role[n] = Leader
        /\ Len(committed) >= 1
        /\ committed[1].term < currentTerm[n]
        /\ log[n][1] = committed[1].entry

\* C9: a failure to serialize the response of a consensus RPC makes that
\* request fail with an error status; the handler does not panic.
C9_SerializeFailureIsError ==
    lastRpc.fault = "serialize" => (lastRpc.kind = "Status" /\ lastRpc.code = "Internal")

\* C11: a request whose payload does not decode into the typed message is
\* rejected with the InvalidArgument status on the consensus RPCs as on
\* Forward and Write, never with Internal.
C11_MalformedInvalidArgument ==
    (lastRpc.name # "none" /\ ~lastRpc.decoded) =>
        /\ lastRpc.kind = "Status"
        /\ lastRpc.code = "InvalidArgument"

\* C12: commit durability.  When a Write returns its AppliedState to the
\* client, the entry it appended is in the logs of a majority of the nodes and
\* a Leader has committed it; a write whose entry no majority holds does not
\* return success.
C12_CommitDurability ==
    (call.rpc = "write" /\ call.phase = "done" /\ call.out.kind = "Response"
        /\ call.out.error = <<>>) =>
        /\ IsMajority({m \in Node : /\ Len(log[m]) >= call.waitIndex
                                    /\ log[m][call.waitIndex] = WaitEntry})
        /\ Len(committed) >= call.waitIndex
        /\ committed[call.waitIndex].entry = WaitEntry

\* A Write returned its AppliedState while one node did not hold the entry.
C12_Witness ==
    /\ call.rpc = "write"
    /\ call.phase = "done"
    /\ call.out.data = <<"json", "x">>
    /\ \E m \in Node : Len(log[m]) < call.waitIndex

\* A Write on a Leader of term 1 ended without success while another node led
\* term 2 and no majority held the entry.
C12_WitnessStaleLeader ==
    /\ call.rpc = "write"
    /\ call.phase = "done"
    /\ call.waitTerm = 1
    /\ call.out.error # <<>>
    /\ \E m \in Node : role[m] = Leader /\ currentTerm[m] = 2
    /\ ~IsMajority({m \in Node : Len(log[m]) >= call.waitIndex})

\* C13: expected-version writes are compare-and-swap.  Whenever a node applies
\* a write, the write succeeds exactly when its expected version is the
\* version the key has (0 when absent): then the key gets the value and the
\* next version, which is the result; otherwise the result is the version
\* conflict and the store stays as it was.
C13_CompareAndSwap ==
    [][\A n \in Replicas :
        Len(sm'[n].results) > Len(sm[n].results) =>
            LET cmd == log[n][sm'[n].last].cmd
                cur == sm[n].store[cmd.key]
                res == sm'[n].results[Len(sm'[n].results)].state
            IN  IF cmd.expected_version = cur.version
                THEN /\ res = Success(cur.version + 1)
                     /\ sm'[n].store[cmd.key] =
                            [version |-> cur.version + 1, value |-> cmd.value]
                     /\ \A k \in Keys \ {cmd.key} :
                            sm'[n].store[k] = sm[n].store[k]
                ELSE /\ res = VersionConflict
                     /\ sm'[n].store = sm[n].store]_vars

\* On an empty store: expected 0 gave version 1, a second expected 0 the
\* conflict, then expected 1 gave version 2.
C13_Witness ==
    \E n \in Replicas :
        /\ Len(log[n]) = 3
        /\ [i \in 1..3 |-> log[n][i].cmd] =
              <<Upsert("a", 0, "x"), Upsert("a", 0, "y"), Upsert("a", 1, "y")>>
        /\ [i \in 1..Len(sm[n].results) |-> sm[n].results[i].state] =
              <<Success(1), VersionConflict, Success(2)>>
        /\ sm[n].store["a"] = [version |-> 2, value |-> "y"]

C15_VoteUniqueness ==
    [][\A j \in Node :
        /\ currentTerm'[j] >= currentTerm[j]
        /\ (votedFor[j] # NoNode /\ votedFor'[j] # votedFor[j]) =>
              currentTerm'[j] > currentTerm[j]
        /\ \A i \in Node \ {j} :
              (j \in votesGranted'[i] /\ j \notin votesGranted[i]) =>
                  /\ currentTerm[i] >= currentTerm[j]
                  /\ currentTerm[i] = currentTerm[j] => votedFor[j] \in {NoNode, i}
                  /\ \/ LastTerm(log[i]) > LastTerm(log[j])
                     \/ /\ LastTerm(log[i]) = LastTerm(log[j])
                        /\ Len(log[i]) >= Len(log[j])
                  /\ votedFor'[j] = i
                  /\ currentTerm'[j] = currentTerm[i]]_vars

\* A node gave its vote of term 2 to the candidate that now leads, while
\* another candidate of term 2 stands without that vote.
C15_Witness ==
    \E i, j, k \in Node :
        /\ i # k
        /\ j \notin {i, k}
        /\ currentTerm[j] = 2
        /\ votedFor[j] = i
        /\ role[k] = Candidate
        /\ currentTerm[k] = 2
        /\ role[i] = Leader
        /\ currentTerm[i] = 2
        /\ Len(log[i]) > 0

\* C16: stale-leader rejection.  An AppendEntries whose term is below the
\* term of the node leaves term, role, log, commit index and vote of the
\* node as they were; its reply says failure, and without a fault there is a
\* reply.  Under any sequence of consensus RPCs the term and the commit index
\* of a node never decrease.
C16_StaleLeaderRejected ==
    /\ [][(lastRpc'.name = "append_entries" /\ lastRpc'.stale) =>
            /\ UNCHANGED <<currentTerm, role, log, commitIndex, votedFor>>
            /\ lastRpc'.kind = "Response" => ~lastRpc'.ok
            /\ lastRpc'.fault = "none" => lastRpc'.kind = "Response"]_vars
    /\ [][\A n \in Node :
            /\ currentTerm'[n] >= currentTerm[n]
            /\ commitIndex'[n] >= commitIndex[n]]_vars

\* A node of term 2 that holds an entry answered failure to an AppendEntries
\* of term 1.
C16_Witness ==
    /\ lastRpc.name = "append_entries"
    /\ lastRpc.stale
    /\ lastRpc.fault = "none"
    /\ lastRpc.kind = "Response"
    /\ ~lastRpc.ok
    /\ \E n \in Served : currentTerm[n] = 2 /\ Len(log[n]) > 0

\* C18: authentication asymmetry.  Write, Get, AppendEntries, InstallSnapshot
\* and Vote do for a call without a token, or with a token that does not
\* verify, exactly what they do for the same call with a valid token: the
\* same reply, the same effect on the node, and a Write that decodes reaches
\* handle_forwardable_request.  Forward does not: the reply to a call without
\* a token differs from the reply to the same call with a valid one.  The
\* handlers are compared in every state in which a call can come in.
C18_AuthAsymmetry ==
    /\ Idle =>
        /\ \A n \in Node, md \in CallerMetadata \ {PeerMetadata} :
              /\ \A data \in WriteData, leader \in Node \cup {NoNode},
                    inTime \in BOOLEAN :
                    LET a == write_call(n, md, data, leader, inTime)
                        b == write_call(n, PeerMetadata, data, leader, inTime)
                    IN  /\ a.log = b.log
                        /\ [a.call EXCEPT !.md = PeerMetadata] = b.call
              /\ \A key \in GetKeys :
                    get_reply(n, md, key) = get_reply(n, PeerMetadata, key)
        /\ \A n \in Served, i \in Peers, md \in CallerMetadata \ {PeerMetadata},
              fault \in Faults :
              LET v == VoteEncode(VoteRequest(currentTerm[i] + 1, i, Len(log[i]),
                                              LastTerm(log[i])))
                  e == AppendEntriesEncode(AppendEntriesRequest(currentTerm[i], i, 0, 0,
                                                                log[i], commitIndex[i]))
                  t == InstallSnapshotEncode(InstallSnapshotRequest(currentTerm[i] + 1,
                                                 i, Len(log[i]), LastTerm(log[i]), log[i]))
              IN  /\ vote(NodeState(n), md, v, fault)
                        = vote(NodeState(n), PeerMetadata, v, fault)
                  /\ append_entries(NodeState(n), md, e, fault)
                        = append_entries(NodeState(n), PeerMetadata, e, fault)
                  /\ install_snapshot(NodeState(n), md, t, fault)
                        = install_snapshot(NodeState(n), PeerMetadata, t, fault)
        /\ \A n \in Node, data \in ForwardData, leader \in Node \cup {NoNode} :
              forward_call(n, NoMetadata, data, NewCall("forward", n), leader,
                           TRUE).call.out
                  # forward_call(n, PeerMetadata, data, NewCall("forward", n), leader,
                                 TRUE).call.out
    /\ (call.rpc = "write" /\ call.out.code # "InvalidArgument") => call.hfr > 0

\* A Write without a token entered a follower, was forwarded to the Leader
\* and returned the applied state.
C18_Witness ==
    /\ call.rpc = "write"
    /\ call.md = NoMetadata
    /\ call.phase = "done"
    /\ call.hops = 1
    /\ call.prodRole = Leader
    /\ call.out.data = <<"json", "x">>

\* C10: log matching.  If the logs of two nodes hold an entry with the same
\* term and index, the logs are the same up to and including that index.
C10_LogMatching ==
    \A i, j \in Node : \A a \in 1..Len(log[i]) : \A b \in 1..Len(log[j]) :
        (log[i][a].term = log[j][b].term /\ log[i][a].index = log[j][b].index) =>
            /\ a = b
            /\ SubSeq(log[i], 1, a) = SubSeq(log[j], 1, a)

\* Two nodes hold the same entry at index 2, after an entry of an earlier term.
C10_Witness ==
    \E i, j \in Node :
        /\ i # j
        /\ Len(log[i]) >= 2
        /\ Len(log[j]) >= 2
        /\ log[i][2] = log[j][2]
        /\ log[i][1].term < log[i][2].term

====
